---------------------------- MODULE Spec2Model ----------------------------
(***************************************************************************)
(* A model of the TurboComposer of dusk-plonk                              *)
(* (src/constraint_system/composer.rs): the witness table, the sixteen     *)
(* parallel row sequences, the sparse public-input store, the lookup       *)
(* table and the permutation builder, with one action per public method.   *)
(* Rows are 0-based in the source; a TLA+ sequence holds row i at i + 1.   *)
(***************************************************************************)
EXTENDS Integers, Sequences, FiniteSets, TLC

(***************************************************************************)
(* Bounds of the model.                                                    *)
(***************************************************************************)
\* The order of the scalar field.  BlsScalar is a 255-bit prime field; the
\* model computes in the integers modulo Modulus.
Modulus == 131
\* The number of mutating calls a behaviour makes after construction.
MaxCalls == 2
\* The largest capacity hint handed to with_size.
MaxSize == 1
\* The largest N of component_decomposition::<N>.
MaxBits == 2

(***************************************************************************)
(* BlsScalar: the field operations the composer uses.                      *)
(***************************************************************************)
Field == 0 .. (Modulus - 1)

From(k) == k % Modulus

Add(x, y) == (x + y) % Modulus

Neg(x) == (Modulus - (x % Modulus)) % Modulus

Sub(x, y) == Add(x, Neg(y))

Mul(x, y) == IF x = 0 THEN 0 ELSE (x * y) % Modulus

\* Option<BlsScalar>: <<>> is None, <<v>> is Some(v).
None == <<>>

Some(v) == <<v>>

IsSome(o) == o # <<>>

Unwrap(o) == o[1]

\* BlsScalar::invert: None when the value has no inverse.
Invert(y) ==
    IF \E z \in Field : Mul(y, z) = 1
    THEN Some(CHOOSE z \in Field : Mul(y, z) = 1)
    ELSE None

(***************************************************************************)
(* Constraint: the builder a caller fills in and submits once.             *)
(***************************************************************************)
Selectors ==
    { "Multiplication", "Left", "Right", "Output", "Fourth", "Constant",
      "PublicInput", "Arithmetic", "Range", "Logic", "GroupAddFixedBase",
      "GroupAddVariableBase", "Lookup" }

\* The selectors a caller may set; the others are internal to the composer.
ExternalSelectors ==
    { "Multiplication", "Left", "Right", "Output", "Fourth", "Constant",
      "PublicInput" }

WiredWitness == { "A", "B", "O", "D" }

\* Witness::new(0), the handle reserved for zero.
constant_zero == 0

ConstraintNew ==
    [ coefficients |-> [s \in Selectors |-> 0],
      witnesses |-> [w \in WiredWitness |-> constant_zero] ]

ConstraintSet(s, r, v) == [s EXCEPT !.coefficients[r] = From(v)]

mult(s, v) == ConstraintSet(s, "Multiplication", v)

left(s, v) == ConstraintSet(s, "Left", v)

right(s, v) == ConstraintSet(s, "Right", v)

output(s, v) == ConstraintSet(s, "Output", v)

fourth(s, v) == ConstraintSet(s, "Fourth", v)

constant(s, v) == ConstraintSet(s, "Constant", v)

public(s, v) == ConstraintSet(s, "PublicInput", v)

a(s, w) == [s EXCEPT !.witnesses["A"] = w]

b(s, w) == [s EXCEPT !.witnesses["B"] = w]

o(s, w) == [s EXCEPT !.witnesses["O"] = w]

d(s, w) == [s EXCEPT !.witnesses["D"] = w]

coeff(s, r) == s.coefficients[r]

witness(s, w) == s.witnesses[w]

\* A constraint carries a public input when its PublicInput coefficient is
\* not zero.
has_public_input(s) == coeff(s, "PublicInput") # 0

\* Constraint::arithmetic: the caller's coefficients and wires, with the
\* Arithmetic selector switched on and every other internal selector zero.
arithmetic(s) ==
    [ coefficients |->
          [r \in Selectors |->
              IF r \in ExternalSelectors THEN coeff(s, r)
              ELSE IF r = "Arithmetic" THEN 1 ELSE 0],
      witnesses |-> s.witnesses ]

(***************************************************************************)
(* Permutation: per witness, the sites <<column, row>> where it occurs.    *)
(***************************************************************************)
PermutationNew == [variable_map |-> << >>]

\* Permutation::new_variable: the next handle is the number of handles.
new_variable(perm) ==
    LET var == Cardinality(DOMAIN perm.variable_map)
    IN  [ perm |-> [variable_map |->
                        [v \in DOMAIN perm.variable_map \cup {var} |->
                            IF v = var THEN << >> ELSE perm.variable_map[v]]],
          var |-> var ]

add_variable_to_map(perm, var, wire_data) ==
    [perm EXCEPT !.variable_map[var] = Append(@, wire_data)]

add_variables_to_map(perm, wa, wb, wc, wd, gate_index) ==
    LET p1 == add_variable_to_map(perm, wa, <<"Left", gate_index>>)
        p2 == add_variable_to_map(p1, wb, <<"Right", gate_index>>)
        p3 == add_variable_to_map(p2, wc, <<"Output", gate_index>>)
    IN  add_variable_to_map(p3, wd, <<"Fourth", gate_index>>)

(***************************************************************************)
(* Maps: BTreeMap<u32, BlsScalar> and HashMap<Witness, BlsScalar>.         *)
(***************************************************************************)
MapInsert(m, k, v) ==
    [x \in DOMAIN m \cup {k} |-> IF x = k THEN v ELSE m[x]]

(***************************************************************************)
(* TurboComposer.                                                          *)
(***************************************************************************)
ComposerEmpty ==
    [ n |-> 0,
      q_m |-> << >>, q_l |-> << >>, q_r |-> << >>, q_o |-> << >>,
      q_c |-> << >>, q_4 |-> << >>, q_arith |-> << >>, q_range |-> << >>,
      q_logic |-> << >>, q_fixed_group_add |-> << >>,
      q_variable_group_add |-> << >>, q_lookup |-> << >>,
      public_inputs_sparse_store |-> << >>,
      w_l |-> << >>, w_r |-> << >>, w_o |-> << >>, w_4 |-> << >>,
      lookup_table |-> << >>,
      witnesses |-> << >>,
      perm |-> PermutationNew ]

gates(c) == c.n

\* Faulty variant of append_witness: it counts the allocation as a gate.
append_witness_counts_gate(c, scalar) ==
    LET r == new_variable(c.perm)
    IN  [ c |-> [c EXCEPT !.perm = r.perm,
                          !.witnesses = MapInsert(@, r.var, From(scalar)),
                          !.n = @ + 1],
          var |-> r.var ]

\* Faulty variant of append_witness: the value is stored under the handle
\* before the new one.
append_witness_binds_previous(c, scalar) ==
    LET r == new_variable(c.perm)
    IN  [ c |-> [c EXCEPT !.perm = r.perm,
                          !.witnesses = MapInsert(@, r.var - 1, From(scalar))],
          var |-> r.var ]

\* Faulty variant of append_witness: the handle is handed out and its value
\* is never inserted in the witness table.
append_witness_without_insert(c, scalar) ==
    LET r == new_variable(c.perm)
    IN  [ c |-> [c EXCEPT !.perm = r.perm],
          var |-> r.var ]

\* append_witness: a new handle from the permutation, bound to the scalar.
append_witness(c, scalar) ==
    LET r == new_variable(c.perm)
    IN  [ c |-> [c EXCEPT !.perm = r.perm,
                          !.witnesses = MapInsert(@, r.var, From(scalar))],
          var |-> r.var ]

\* Faulty variant of AppendGateWires: O and D go to each other's sequence.
AppendGateWiresCrossed(c, wa, wb, wo, wd) ==
    [c EXCEPT
        !.w_l = Append(@, wa),
        !.w_r = Append(@, wb),
        !.w_o = Append(@, wd),
        !.w_4 = Append(@, wo)]

\* append_gate, the four wire pushes.
AppendGateWires(c, wa, wb, wo, wd) ==
    [c EXCEPT
        !.w_l = Append(@, wa),
        !.w_r = Append(@, wb),
        !.w_o = Append(@, wo),
        !.w_4 = Append(@, wd)]

\* Faulty variant of AppendGateSelectors: the push onto q_4 is missing.
AppendGateSelectorsNoFourth(c, s) ==
    [c EXCEPT
        !.q_m = Append(@, coeff(s, "Multiplication")),
        !.q_l = Append(@, coeff(s, "Left")),
        !.q_r = Append(@, coeff(s, "Right")),
        !.q_o = Append(@, coeff(s, "Output")),
        !.q_c = Append(@, coeff(s, "Constant")),
        !.q_arith = Append(@, coeff(s, "Arithmetic")),
        !.q_range = Append(@, coeff(s, "Range")),
        !.q_logic = Append(@, coeff(s, "Logic")),
        !.q_fixed_group_add = Append(@, coeff(s, "GroupAddFixedBase")),
        !.q_variable_group_add = Append(@, coeff(s, "GroupAddVariableBase")),
        !.q_lookup = Append(@, coeff(s, "Lookup"))]

\* append_gate, the twelve selector pushes.
AppendGateSelectors(c, s) ==
    [c EXCEPT
        !.q_m = Append(@, coeff(s, "Multiplication")),
        !.q_l = Append(@, coeff(s, "Left")),
        !.q_r = Append(@, coeff(s, "Right")),
        !.q_o = Append(@, coeff(s, "Output")),
        !.q_4 = Append(@, coeff(s, "Fourth")),
        !.q_c = Append(@, coeff(s, "Constant")),
        !.q_arith = Append(@, coeff(s, "Arithmetic")),
        !.q_range = Append(@, coeff(s, "Range")),
        !.q_logic = Append(@, coeff(s, "Logic")),
        !.q_fixed_group_add = Append(@, coeff(s, "GroupAddFixedBase")),
        !.q_variable_group_add = Append(@, coeff(s, "GroupAddVariableBase")),
        !.q_lookup = Append(@, coeff(s, "Lookup"))]

\* Faulty variant of AppendGatePublicInput: the entry is recorded one row too far.
AppendGatePublicInputNextRow(c, s) ==
    IF has_public_input(s)
    THEN [c EXCEPT !.public_inputs_sparse_store =
                       MapInsert(@, c.n + 1, coeff(s, "PublicInput"))]
    ELSE c

\* Faulty variant of AppendGatePublicInput: the entry is recorded at the row
\* before n.
AppendGatePublicInputPreviousRow(c, s) ==
    IF has_public_input(s)
    THEN [c EXCEPT !.public_inputs_sparse_store =
                       MapInsert(@, c.n - 1, coeff(s, "PublicInput"))]
    ELSE c

\* append_gate, the public input recorded at row n.
AppendGatePublicInput(c, s) ==
    IF has_public_input(s)
    THEN [c EXCEPT !.public_inputs_sparse_store =
                       MapInsert(@, c.n, coeff(s, "PublicInput"))]
    ELSE c

\* append_gate: one entry on each of the sixteen sequences, the public
\* input, the four occurrences at row n, then n += 1.
append_gate(c, s0) ==
    LET wa == witness(s0, "A")
        wb == witness(s0, "B")
        wo == witness(s0, "O")
        wd == witness(s0, "D")
        s == arithmetic(s0)
        c1 == AppendGatePublicInput(
                  AppendGateSelectors(AppendGateWires(c, wa, wb, wo, wd), s),
                  s)
    IN  [c1 EXCEPT
            !.perm = add_variables_to_map(@, wa, wb, wo, wd, c1.n),
            !.n = c1.n + 1]

\* Faulty variant of assert_equal_constant: the constant is not negated.
assert_equal_constant_unnegated(c, wa, k, pi) ==
    LET constraint == a(constant(left(ConstraintNew, 1), k), wa)
    IN  append_gate(c, IF IsSome(pi) THEN public(constraint, Unwrap(pi))
                       ELSE constraint)

\* assert_equal_constant: the row  a - constant + pi = 0.
assert_equal_constant(c, wa, k, pi) ==
    LET constraint == a(constant(left(ConstraintNew, 1), Neg(k)), wa)
    IN  append_gate(c, IF IsSome(pi) THEN public(constraint, Unwrap(pi))
                       ELSE constraint)

\* Faulty variant of assert_equal: the right coefficient is not negated.
assert_equal_unnegated(c, wa, wb) ==
    append_gate(c, b(a(right(left(ConstraintNew, 1), 1), wa), wb))

\* assert_equal: the row  a - b = 0.
assert_equal(c, wa, wb) ==
    append_gate(c, b(a(right(left(ConstraintNew, 1), Neg(1)), wa), wb))

\* append_constant: a witness and the row binding it to its value.
append_constant(c, value) ==
    LET r == append_witness(c, value)
    IN  [ c |-> assert_equal_constant(r.c, r.var, From(value), None),
          var |-> r.var ]


\* append_dummy_gates, the first dummy row: twelve selectors, four fresh
\* witnesses on the wires, their occurrences at row n, then n += 1.
DummyFirstRow(c) ==
    LET r6 == append_witness(c, 6)
        r1 == append_witness(r6.c, 1)
        r7 == append_witness(r1.c, 7)
        r20 == append_witness(r7.c, Neg(20))
        c0 == r20.c
    IN  [ c |-> [c0 EXCEPT
                    !.q_m = Append(@, From(1)),
                    !.q_l = Append(@, From(2)),
                    !.q_r = Append(@, From(3)),
                    !.q_o = Append(@, From(4)),
                    !.q_c = Append(@, From(4)),
                    !.q_4 = Append(@, 1),
                    !.q_arith = Append(@, 1),
                    !.q_range = Append(@, 0),
                    !.q_logic = Append(@, 0),
                    !.q_fixed_group_add = Append(@, 0),
                    !.q_variable_group_add = Append(@, 0),
                    !.q_lookup = Append(@, 1),
                    !.w_l = Append(@, r6.var),
                    !.w_r = Append(@, r7.var),
                    !.w_o = Append(@, r20.var),
                    !.w_4 = Append(@, r1.var),
                    !.perm = add_variables_to_map(@, r6.var, r7.var, r20.var,
                                                  r1.var, c0.n),
                    !.n = c0.n + 1],
          var_six |-> r6.var, var_one |-> r1.var, var_seven |-> r7.var,
          var_min_twenty |-> r20.var ]

\* Faulty variant of DummySecondRow: its occurrences are registered at the row of
\* the first dummy gate.
DummySecondRowAtFirstRow(f) ==
    [f.c EXCEPT
        !.q_m = Append(@, From(1)),
        !.q_l = Append(@, From(1)),
        !.q_r = Append(@, From(1)),
        !.q_o = Append(@, From(1)),
        !.q_c = Append(@, From(127)),
        !.q_4 = Append(@, 0),
        !.q_arith = Append(@, 1),
        !.q_range = Append(@, 0),
        !.q_logic = Append(@, 0),
        !.q_fixed_group_add = Append(@, 0),
        !.q_variable_group_add = Append(@, 0),
        !.q_lookup = Append(@, 1),
        !.w_l = Append(@, f.var_min_twenty),
        !.w_r = Append(@, f.var_six),
        !.w_o = Append(@, f.var_seven),
        !.w_4 = Append(@, constant_zero),
        !.perm = add_variables_to_map(@, f.var_min_twenty, f.var_six,
                                      f.var_seven, constant_zero,
                                      f.c.n - 1)]

\* append_dummy_gates, the second dummy row, registered at the new row n;
\* the n += 1 for it is the last statement of append_dummy_gates.
DummySecondRow(f) ==
    [f.c EXCEPT
        !.q_m = Append(@, From(1)),
        !.q_l = Append(@, From(1)),
        !.q_r = Append(@, From(1)),
        !.q_o = Append(@, From(1)),
        !.q_c = Append(@, From(127)),
        !.q_4 = Append(@, 0),
        !.q_arith = Append(@, 1),
        !.q_range = Append(@, 0),
        !.q_logic = Append(@, 0),
        !.q_fixed_group_add = Append(@, 0),
        !.q_variable_group_add = Append(@, 0),
        !.q_lookup = Append(@, 1),
        !.w_l = Append(@, f.var_min_twenty),
        !.w_r = Append(@, f.var_six),
        !.w_o = Append(@, f.var_seven),
        !.w_4 = Append(@, constant_zero),
        !.perm = add_variables_to_map(@, f.var_min_twenty, f.var_six,
                                      f.var_seven, constant_zero, f.c.n)]

\* Faulty variant of DummyLookupRows: 20 is not negated.
DummyLookupRowsUnnegated(table) ==
    LET t1 == << <<From(6), From(7), From(20), From(1)>> >> \o table
        t2 == << <<From(20), From(6), From(7), From(0)>> >> \o t1
    IN  << <<From(3), From(1), From(4), From(9)>> >> \o t2

\* append_dummy_gates, the three rows inserted at index 0 of the lookup
\* table, one after the other.
DummyLookupRows(table) ==
    LET t1 == << <<From(6), From(7), Neg(20), From(1)>> >> \o table
        t2 == << <<Neg(20), From(6), From(7), From(0)>> >> \o t1
    IN  << <<From(3), From(1), From(4), From(9)>> >> \o t2

\* append_dummy_gates: the two dummy rows and the lookup rows.
append_dummy_gates(c) ==
    LET c2 == DummySecondRow(DummyFirstRow(c))
    IN  [c2 EXCEPT
            !.lookup_table = DummyLookupRows(@),
            !.n = c2.n + 1]

\* Faulty variant of with_size: the dummy gates are not added.
with_size_without_dummy_gates(size) == append_constant(ComposerEmpty, 0).c

\* with_size: the capacity hint reserves memory only; Witness 0 is bound to
\* zero by append_constant, then the dummy gates are added.
with_size(size) == append_dummy_gates(append_constant(ComposerEmpty, 0).c)

new == with_size(0)

\* Faulty variant of append_output_witness: the constant term is left out of x.
append_output_witness_without_constant(c, s) ==
    LET va == c.witnesses[witness(s, "A")]
        vb == c.witnesses[witness(s, "B")]
        vd == c.witnesses[witness(s, "D")]
        x == Add(Add(Add(Add(Mul(Mul(coeff(s, "Multiplication"), va), vb),
                             Mul(coeff(s, "Left"), va)),
                         Mul(coeff(s, "Right"), vb)),
                     Mul(coeff(s, "Fourth"), vd)),
                 coeff(s, "PublicInput"))
        y == Invert(coeff(s, "Output"))
    IN  IF IsSome(y)
        THEN LET r == append_witness(c, Mul(x, Neg(Unwrap(y))))
             IN  [c |-> r.c, var |-> r.var, ok |-> TRUE]
        ELSE [c |-> c, var |-> constant_zero, ok |-> FALSE]

\* append_output_witness: the witness o with  x + q_o * o = 0, where x is the
\* rest of the gate equation.  ok is FALSE where the source's expect panics.
append_output_witness(c, s) ==
    LET va == c.witnesses[witness(s, "A")]
        vb == c.witnesses[witness(s, "B")]
        vd == c.witnesses[witness(s, "D")]
        x == Add(Add(Add(Add(Add(Mul(Mul(coeff(s, "Multiplication"), va), vb),
                                 Mul(coeff(s, "Left"), va)),
                             Mul(coeff(s, "Right"), vb)),
                         Mul(coeff(s, "Fourth"), vd)),
                     coeff(s, "Constant")),
                 coeff(s, "PublicInput"))
        y == Invert(coeff(s, "Output"))
    IN  IF IsSome(y)
        THEN LET r == append_witness(c, Mul(x, Neg(Unwrap(y))))
             IN  [c |-> r.c, var |-> r.var, ok |-> TRUE]
        ELSE [c |-> c, var |-> constant_zero, ok |-> FALSE]

\* gate_add and gate_mul: the output selector is set to -1, the output
\* witness is computed and allocated, and the row is appended.
gate_add(c, s0) ==
    LET s == output(arithmetic(s0), Neg(1))
        r == append_output_witness(c, s)
    IN  IF r.ok
        THEN [c |-> append_gate(r.c, o(s, r.var)), var |-> r.var, ok |-> TRUE]
        ELSE r

gate_mul(c, s0) == gate_add(c, s0)

\* component_boolean: the row  a * a - a = 0.
component_boolean(c, wa) ==
    append_gate(c, d(o(b(a(output(mult(ConstraintNew, 1), Neg(1)), wa), wa),
                       wa), constant_zero))

\* The debug assertion of the select gadgets; debug_assertions tells whether
\* the build compiles it in.
IsBit(c, bit) == c.witnesses[bit] = 1 \/ c.witnesses[bit] = 0

\* Faulty variant of component_select: the four rows are appended and the
\* output of the first product is returned.
component_select_returns_product(c, bit, wa, wb, debug_assertions) ==
    LET bit_times_a == gate_mul(c, b(a(mult(ConstraintNew, 1), bit), wa))
        one_min_bit ==
            gate_add(bit_times_a.c,
                     a(constant(left(ConstraintNew, Neg(1)), 1), bit))
        one_min_bit_b ==
            gate_mul(one_min_bit.c,
                     b(a(mult(ConstraintNew, 1), one_min_bit.var), wb))
        sum == gate_add(one_min_bit_b.c,
                        b(a(right(left(ConstraintNew, 1), 1),
                            one_min_bit_b.var), bit_times_a.var))
    IN  IF debug_assertions /\ ~IsBit(c, bit)
        THEN [c |-> c, var |-> constant_zero, ok |-> FALSE]
        ELSE [c |-> sum.c, var |-> bit_times_a.var, ok |-> TRUE]

\* Faulty variant of component_select: a and b have changed places.
component_select_swapped(c, bit, wa, wb, debug_assertions) ==
    LET bit_times_a == gate_mul(c, b(a(mult(ConstraintNew, 1), bit), wb))
        one_min_bit ==
            gate_add(bit_times_a.c,
                     a(constant(left(ConstraintNew, Neg(1)), 1), bit))
        one_min_bit_b ==
            gate_mul(one_min_bit.c,
                     b(a(mult(ConstraintNew, 1), one_min_bit.var), wa))
    IN  IF debug_assertions /\ ~IsBit(c, bit)
        THEN [c |-> c, var |-> constant_zero, ok |-> FALSE]
        ELSE gate_add(one_min_bit_b.c,
                      b(a(right(left(ConstraintNew, 1), 1),
                          one_min_bit_b.var), bit_times_a.var))

\* component_select: bit * a + (1 - bit) * b in four rows.
component_select(c, bit, wa, wb, debug_assertions) ==
    LET bit_times_a == gate_mul(c, b(a(mult(ConstraintNew, 1), bit), wa))
        one_min_bit ==
            gate_add(bit_times_a.c,
                     a(constant(left(ConstraintNew, Neg(1)), 1), bit))
        one_min_bit_b ==
            gate_mul(one_min_bit.c,
                     b(a(mult(ConstraintNew, 1), one_min_bit.var), wb))
    IN  IF debug_assertions /\ ~IsBit(c, bit)
        THEN [c |-> c, var |-> constant_zero, ok |-> FALSE]
        ELSE gate_add(one_min_bit_b.c,
                      b(a(right(left(ConstraintNew, 1), 1),
                          one_min_bit_b.var), bit_times_a.var))

\* Faulty variant of component_select_zero: the row adds where it should
\* multiply.
component_select_zero_adds(c, bit, value, debug_assertions) ==
    IF debug_assertions /\ ~IsBit(c, bit)
    THEN [c |-> c, var |-> constant_zero, ok |-> FALSE]
    ELSE gate_add(c, b(a(right(left(ConstraintNew, 1), 1), bit), value))

\* Faulty variant of component_select_zero: the assertion on the bit comes
\* after the row.
component_select_zero_asserts_late(c, bit, value, debug_assertions) ==
    LET r == gate_mul(c, b(a(mult(ConstraintNew, 1), bit), value))
    IN  IF debug_assertions /\ ~IsBit(c, bit)
        THEN [c |-> r.c, var |-> constant_zero, ok |-> FALSE]
        ELSE r

\* component_select_zero: bit * value in one row.
component_select_zero(c, bit, value, debug_assertions) ==
    IF debug_assertions /\ ~IsBit(c, bit)
    THEN [c |-> c, var |-> constant_zero, ok |-> FALSE]
    ELSE gate_mul(c, b(a(mult(ConstraintNew, 1), bit), value))

\* Faulty variant of component_select_one: the witness is the product alone.
component_select_one_product(c, bit, value, debug_assertions) ==
    LET vb == c.witnesses[bit]
        vv == c.witnesses[value]
        f_x == append_witness(c, Mul(vb, vv))
        constraint ==
            o(b(a(constant(output(left(mult(ConstraintNew, 1), Neg(1)),
                                  Neg(1)), 1), bit), value), f_x.var)
    IN  IF debug_assertions /\ ~IsBit(c, bit)
        THEN [c |-> c, var |-> constant_zero, ok |-> FALSE]
        ELSE [c |-> append_gate(f_x.c, constraint), var |-> f_x.var,
              ok |-> TRUE]

\* component_select_one: 1 - bit + bit * value, bound by one row.
component_select_one(c, bit, value, debug_assertions) ==
    LET vb == c.witnesses[bit]
        vv == c.witnesses[value]
        f_x == append_witness(c, Add(Sub(1, vb), Mul(vb, vv)))
        constraint ==
            o(b(a(constant(output(left(mult(ConstraintNew, 1), Neg(1)),
                                  Neg(1)), 1), bit), value), f_x.var)
    IN  IF debug_assertions /\ ~IsBit(c, bit)
        THEN [c |-> c, var |-> constant_zero, ok |-> FALSE]
        ELSE [c |-> append_gate(f_x.c, constraint), var |-> f_x.var,
              ok |-> TRUE]

\* BlsScalar::to_bits, least significant bit first, and BlsScalar::pow_of_2.
Pow2(i) == 2 ^ i

\* Faulty variant of to_bit: the bits are read from bit 1 upwards.
to_bit_from_one(x, i) == (x \div Pow2(i + 1)) % 2

to_bit(x, i) == (x \div Pow2(i)) % 2

\* Faulty variant of pow_of_2: the weight of bit i is that of bit i + 1.
pow_of_2_next(i) == From(Pow2(i + 1))

pow_of_2(i) == From(Pow2(i))

\* The fold of component_decomposition over the bits i .. N - 1: acc is the
\* accumulator witness, bits the witnesses allocated so far.
RECURSIVE DecompositionFold(_, _, _, _, _, _)
DecompositionFold(c, scalar, N, i, acc, bits) ==
    IF i = N
    THEN [c |-> c, acc |-> acc, bits |-> bits]
    ELSE LET w == append_witness(c, to_bit(c.witnesses[scalar], i))
             c1 == component_boolean(w.c, w.var)
             g == gate_add(c1, b(a(right(left(ConstraintNew, pow_of_2(i)), 1),
                                   w.var), acc))
         IN  DecompositionFold(g.c, scalar, N, i + 1, g.var,
                               Append(bits, w.var))

\* The largest N that component_decomposition::<N> takes.
MaxDecompositionBits == 256

\* component_decomposition::<N>: N bit witnesses, each boolean-constrained
\* and accumulated, then the accumulator asserted equal to the scalar.  ok is
\* FALSE where the assertion on N at its start fails.
component_decomposition(c, scalar, N) ==
    LET f == DecompositionFold(c, scalar, N, 0, constant_zero, << >>)
    IN  IF 0 < N /\ N <= MaxDecompositionBits
        THEN [c |-> assert_equal(f.c, f.acc, scalar), bits |-> f.bits,
              ok |-> TRUE]
        ELSE [c |-> c, bits |-> << >>, ok |-> FALSE]

\* Faulty variant of append_plonkup_gate: it refuses wire values that are not
\* a row of the lookup table.
append_plonkup_gate_checks_table(c, wa, wb, wc, wd, pi, debug_assertions) ==
    LET pushed ==
            [c EXCEPT
                !.w_l = Append(@, wa),
                !.w_r = Append(@, wb),
                !.w_o = Append(@, wc),
                !.w_4 = Append(@, wd),
                !.q_l = Append(@, 0),
                !.q_r = Append(@, 0),
                !.q_o = Append(@, 0),
                !.q_c = Append(@, 0),
                !.q_4 = Append(@, 0),
                !.q_arith = Append(@, 0),
                !.q_m = Append(@, 0),
                !.q_range = Append(@, 0),
                !.q_logic = Append(@, 0),
                !.q_fixed_group_add = Append(@, 0),
                !.q_variable_group_add = Append(@, 0),
                !.q_lookup = Append(@, 1)]
        values == << c.witnesses[wa], c.witnesses[wb], c.witnesses[wc],
                     c.witnesses[wd] >>
    IN  IF \/ /\ debug_assertions
              /\ IsSome(pi)
              /\ c.n \in DOMAIN c.public_inputs_sparse_store
           \/ \A i \in DOMAIN c.lookup_table : c.lookup_table[i] # values
        THEN [c |-> pushed, var |-> wc, ok |-> FALSE]
        ELSE [c |-> [pushed EXCEPT
                        !.public_inputs_sparse_store =
                            IF IsSome(pi) THEN MapInsert(@, c.n, Unwrap(pi))
                            ELSE @,
                        !.perm = add_variables_to_map(@, wa, wb, wc, wd, c.n),
                        !.n = c.n + 1],
              var |-> wc, ok |-> TRUE]

\* Faulty variant of append_plonkup_gate: it hands back d, not c.
append_plonkup_gate_returns_d(c, wa, wb, wc, wd, pi, debug_assertions) ==
    LET pushed ==
            [c EXCEPT
                !.w_l = Append(@, wa),
                !.w_r = Append(@, wb),
                !.w_o = Append(@, wc),
                !.w_4 = Append(@, wd),
                !.q_l = Append(@, 0),
                !.q_r = Append(@, 0),
                !.q_o = Append(@, 0),
                !.q_c = Append(@, 0),
                !.q_4 = Append(@, 0),
                !.q_arith = Append(@, 0),
                !.q_m = Append(@, 0),
                !.q_range = Append(@, 0),
                !.q_logic = Append(@, 0),
                !.q_fixed_group_add = Append(@, 0),
                !.q_variable_group_add = Append(@, 0),
                !.q_lookup = Append(@, 1)]
    IN  IF /\ debug_assertions
           /\ IsSome(pi)
           /\ c.n \in DOMAIN c.public_inputs_sparse_store
        THEN [c |-> pushed, var |-> wd, ok |-> FALSE]
        ELSE [c |-> [pushed EXCEPT
                        !.public_inputs_sparse_store =
                            IF IsSome(pi) THEN MapInsert(@, c.n, Unwrap(pi))
                            ELSE @,
                        !.perm = add_variables_to_map(@, wa, wb, wc, wd, c.n),
                        !.n = c.n + 1],
              var |-> wd, ok |-> TRUE]

\* append_plonkup_gate: a row whose only selector is Lookup.  ok is FALSE
\* where the debug assertion on the public-input store fails (in a build
\* with debug_assertions); the sixteen pushes before it have happened by then.
append_plonkup_gate(c, wa, wb, wc, wd, pi, debug_assertions) ==
    LET pushed ==
            [c EXCEPT
                !.w_l = Append(@, wa),
                !.w_r = Append(@, wb),
                !.w_o = Append(@, wc),
                !.w_4 = Append(@, wd),
                !.q_l = Append(@, 0),
                !.q_r = Append(@, 0),
                !.q_o = Append(@, 0),
                !.q_c = Append(@, 0),
                !.q_4 = Append(@, 0),
                !.q_arith = Append(@, 0),
                !.q_m = Append(@, 0),
                !.q_range = Append(@, 0),
                !.q_logic = Append(@, 0),
                !.q_fixed_group_add = Append(@, 0),
                !.q_variable_group_add = Append(@, 0),
                !.q_lookup = Append(@, 1)]
    IN  IF /\ debug_assertions
           /\ IsSome(pi)
           /\ c.n \in DOMAIN c.public_inputs_sparse_store
        THEN [c |-> pushed, var |-> wc, ok |-> FALSE]
        ELSE [c |-> [pushed EXCEPT
                        !.public_inputs_sparse_store =
                            IF IsSome(pi) THEN MapInsert(@, c.n, Unwrap(pi))
                            ELSE @,
                        !.perm = add_variables_to_map(@, wa, wb, wc, wd, c.n),
                        !.n = c.n + 1],
              var |-> wc, ok |-> TRUE]

\* Faulty variant of append_plonkup_table: the rows go in front.
append_plonkup_table_in_front(c, table) ==
    [c EXCEPT !.lookup_table = table \o @]

\* append_plonkup_table: the rows of the table pushed in order.
append_plonkup_table(c, table) ==
    [c EXCEPT !.lookup_table = @ \o table]

\* The keys of a BTreeMap in iteration order (ascending).
RECURSIVE BTreeKeys(_)
BTreeKeys(S) ==
    IF S = {} THEN << >>
    ELSE LET k == CHOOSE x \in S : \A y \in S : x <= y
         IN  <<k>> \o BTreeKeys(S \ {k})

\* to_dense_public_inputs: n zeroes, then each entry written at its row.
\* The indexing pi[pos] panics when pos is not below n.
RECURSIVE DenseWrite(_, _, _)
DenseWrite(pi, store, keys) ==
    IF keys = << >> THEN pi
    ELSE LET pos == Head(keys)
         IN  DenseWrite(IF pos < Len(pi)
                        THEN [pi EXCEPT ![pos + 1] = store[pos]] ELSE pi,
                        store, Tail(keys))

\* Faulty variant of to_dense_public_inputs: the vector is built for the rows that
\* carry a public input only, not for all n rows.
to_dense_public_inputs_short(c) ==
    DenseWrite([i \in 1 .. Cardinality(DOMAIN c.public_inputs_sparse_store)
                    |-> 0],
               c.public_inputs_sparse_store,
               BTreeKeys(DOMAIN c.public_inputs_sparse_store))

to_dense_public_inputs(c) ==
    DenseWrite([i \in 1 .. c.n |-> 0], c.public_inputs_sparse_store,
               BTreeKeys(DOMAIN c.public_inputs_sparse_store))

DensePanics(c) == \E pos \in DOMAIN c.public_inputs_sparse_store : pos >= c.n

public_input_indexes(c) == BTreeKeys(DOMAIN c.public_inputs_sparse_store)

\* Bitwise and / xor of two scalars, on their canonical representations.
RECURSIVE BitAnd(_, _)
BitAnd(x, y) ==
    IF x = 0 \/ y = 0 THEN 0
    ELSE (x % 2) * (y % 2) + 2 * BitAnd(x \div 2, y \div 2)

RECURSIVE BitXor(_, _)
BitXor(x, y) ==
    IF x = 0 THEN y
    ELSE IF y = 0 THEN x
    ELSE ((x + y) % 2) + 2 * BitXor(x \div 2, y \div 2)

\* delta(f) = f (f - 1) (f - 2) (f - 3)
delta(f) == Mul(Mul(Mul(f, Sub(f, 1)), Sub(f, From(2))), Sub(f, From(3)))

\* The value k that check_circuit_satisfied computes for row i (0-based).
RowIdentity(c, i) ==
    LET pi_vec == to_dense_public_inputs(c)
        four == From(4)
        next == ((i + 1) % c.n) + 1
        qm == c.q_m[i + 1]
        ql == c.q_l[i + 1]
        qr == c.q_r[i + 1]
        qo == c.q_o[i + 1]
        qc == c.q_c[i + 1]
        q4 == c.q_4[i + 1]
        qarith == c.q_arith[i + 1]
        qrange == c.q_range[i + 1]
        qlogic == c.q_logic[i + 1]
        pi == pi_vec[i + 1]
        va == c.witnesses[c.w_l[i + 1]]
        a_next == c.witnesses[c.w_l[next]]
        vb == c.witnesses[c.w_r[i + 1]]
        b_next == c.witnesses[c.w_r[next]]
        vc == c.witnesses[c.w_o[i + 1]]
        vd == c.witnesses[c.w_4[i + 1]]
        d_next == c.witnesses[c.w_4[next]]
        da == delta(Sub(a_next, Mul(four, va)))
        db == delta(Sub(b_next, Mul(four, vb)))
        dd == delta(Sub(d_next, Mul(four, vd)))
        arith ==
            Add(Add(Add(Add(Add(Add(Mul(Mul(qm, va), vb), Mul(ql, va)),
                                Mul(qr, vb)), Mul(qo, vc)), Mul(q4, vd)),
                    pi), qc)
        bitop ==
            IF qlogic = 1 THEN Sub(From(BitAnd(va, vb)), vd)
            ELSE IF qlogic = Neg(1) THEN Sub(From(BitXor(va, vb)), vd)
            ELSE 0
        logic ==
            Add(Add(Add(Add(Mul(Sub(da, db), vc), da), db), dd), bitop)
        range ==
            Add(Add(Add(delta(Sub(vc, Mul(four, vd))),
                        delta(Sub(vb, Mul(four, vc)))),
                    delta(Sub(va, Mul(four, vb)))),
                delta(Sub(d_next, Mul(four, va))))
    IN  Add(Add(Mul(qarith, arith), Mul(qlogic, logic)), Mul(qrange, range))

\* Faulty variant of CheckFrom: it goes through every row and cites the last
\* one that fails.
RECURSIVE CheckFromLast(_, _)
CheckFromLast(c, i) ==
    IF i >= c.n THEN None
    ELSE LET rest == CheckFromLast(c, i + 1)
         IN  IF IsSome(rest) THEN rest
             ELSE IF RowIdentity(c, i) # 0 THEN Some(i)
             ELSE None

\* check_circuit_satisfied: the rows in order; Some(i) is the panic
\* "Check failed at gate i", None is a normal return.
RECURSIVE CheckFrom(_, _)
CheckFrom(c, i) ==
    IF i >= c.n THEN None
    ELSE IF RowIdentity(c, i) # 0 THEN Some(i)
    ELSE CheckFrom(c, i + 1)

check_circuit_satisfied(c) == CheckFrom(c, 0)

(***************************************************************************)
(* The state: one composer, the handles its caller holds, and the last     *)
(* call with its arguments and result.                                     *)
(***************************************************************************)
VARIABLES composer, handles, last, calls, panicked

vars == <<composer, handles, last, calls, panicked>>

\* The values callers pass.
InVals == {0, 1, 2}

InConstants == {1}

InPublic == {None, Some(0), Some(1)}

\* The coefficients of the constraints callers submit to append_gate: six
\* different values, one per selector a caller may set.
InConstraints ==
    { constant(fourth(output(right(left(mult(ConstraintNew, 6), 1), 2), 3),
                      4), 5) }

\* The wire tuples callers pass to append_gate and append_plonkup_gate: one
\* of the caller's handles on the third wire and Witness 0 on the other
\* three, or the other way round.
InWires(H) ==
    UNION { { <<constant_zero, constant_zero, x, constant_zero>>,
              <<x, x, constant_zero, x>> } : x \in H }

\* The pairs of witnesses callers pass to assert_equal and component_select:
\* one of the caller's handles and Witness 0, in either order.
InPairs(H) ==
    UNION { { <<x, constant_zero>>, <<constant_zero, x>> } : x \in H }

\* The N that callers instantiate component_decomposition::<N> with: the
\* small ones, none, and one too many.
InBits == (0 .. MaxBits) \cup {MaxDecompositionBits + 1}

InTables ==
    { << <<From(12), From(12), From(12), From(12)>> >>,
      << <<From(2), From(3), From(1), From(6)>>,
         <<From(3), From(0), From(12), From(341)>> >> }

\* A call record: the method, its witness arguments, its scalar arguments,
\* its optional public input, its constraint or table, and what it returned.
Call(op, w, k, pi, arg, ret) ==
    [op |-> op, w |-> w, k |-> k, pi |-> pi, arg |-> arg, ret |-> ret]

Init ==
    \E size \in 0 .. MaxSize :
        /\ composer = with_size(size)
        /\ handles = {constant_zero}
        /\ last = Call("with_size", << >>, <<size>>, None, << >>, << >>)
        /\ calls = 0
        /\ panicked = FALSE

CanCall == ~panicked /\ calls < MaxCalls

\* A call that returns a witness, or panics.
Returns(op, w, k, pi, arg, r) ==
    /\ composer' = r.c
    /\ panicked' = ~r.ok
    /\ handles' = IF r.ok THEN handles \cup {r.var} ELSE handles
    /\ last' = Call(op, w, k, pi, arg, IF r.ok THEN <<r.var>> ELSE << >>)
    /\ calls' = calls + 1

\* A call that returns nothing.
Mutates(op, w, k, pi, arg, c) ==
    /\ composer' = c
    /\ last' = Call(op, w, k, pi, arg, << >>)
    /\ calls' = calls + 1
    /\ UNCHANGED <<handles, panicked>>

\* Faulty variant of AppendWitness: the handle comes from a counter that is
\* not the composer's own; a handle may have been skipped.
AppendWitnessFromSharedCounter ==
    /\ CanCall
    /\ \E v \in InVals, skipped \in BOOLEAN :
        LET c0 == IF skipped THEN append_witness(composer, 0).c ELSE composer
            r == append_witness(c0, v)
        IN  Returns("append_witness", << >>, <<v>>, None, << >>,
                    [c |-> r.c, var |-> r.var, ok |-> TRUE])

AppendWitness ==
    /\ CanCall
    /\ \E v \in InVals :
        LET r == append_witness(composer, v)
        IN  Returns("append_witness", << >>, <<v>>, None, << >>,
                    [c |-> r.c, var |-> r.var, ok |-> TRUE])

AppendConstant ==
    /\ CanCall
    /\ \E v \in InVals :
        LET r == append_constant(composer, v)
        IN  Returns("append_constant", << >>, <<v>>, None, << >>,
                    [c |-> r.c, var |-> r.var, ok |-> TRUE])

AppendGate ==
    /\ CanCall
    /\ \E w \in InWires(handles), q \in InConstraints, pi \in InPublic :
        LET s0 == d(o(b(a(q, w[1]), w[2]), w[3]), w[4])
            s == IF IsSome(pi) THEN public(s0, Unwrap(pi)) ELSE s0
        IN  Mutates("append_gate", w, << >>, pi, s, append_gate(composer, s))

AssertEqualConstant ==
    /\ CanCall
    /\ \E wa \in handles, k \in InConstants, pi \in InPublic :
        Mutates("assert_equal_constant", <<wa>>, <<k>>, pi, << >>,
                assert_equal_constant(composer, wa, k, pi))

AssertEqual ==
    /\ CanCall
    /\ \E w \in InPairs(handles) :
        Mutates("assert_equal", w, << >>, None, << >>,
                assert_equal(composer, w[1], w[2]))

\* The select gadgets, with the bit drawn from the handles in B.
ComponentSelectOf(B) ==
    /\ CanCall
    /\ \E bit \in B, w \in InPairs(handles), debug_assertions \in BOOLEAN :
        Returns("component_select", <<bit, w[1], w[2]>>, << >>, None, << >>,
                component_select(composer, bit, w[1], w[2],
                                 debug_assertions))

ComponentSelectZeroOf(B) ==
    /\ CanCall
    /\ \E bit \in B, value \in handles, debug_assertions \in BOOLEAN :
        Returns("component_select_zero", <<bit, value>>, << >>, None, << >>,
                component_select_zero(composer, bit, value, debug_assertions))

ComponentSelectOneOf(B) ==
    /\ CanCall
    /\ \E bit \in B, value \in handles, debug_assertions \in BOOLEAN :
        Returns("component_select_one", <<bit, value>>, << >>, None, << >>,
                component_select_one(composer, bit, value, debug_assertions))

ComponentSelect == ComponentSelectOf(handles)

ComponentSelectZero == ComponentSelectZeroOf(handles)

ComponentSelectOne == ComponentSelectOneOf(handles)

\* The caller's handles whose value is 0 or 1.
BitHandles == {h \in handles : IsBit(composer, h)}

ComponentSelectBit == ComponentSelectOf(BitHandles)

ComponentSelectZeroBit == ComponentSelectZeroOf(BitHandles)

ComponentSelectOneBit == ComponentSelectOneOf(BitHandles)

ComponentDecomposition ==
    /\ CanCall
    /\ \E scalar \in handles, N \in InBits :
        LET r == component_decomposition(composer, scalar, N)
        IN  /\ composer' = r.c
            /\ handles' = handles \cup {r.bits[i] : i \in DOMAIN r.bits}
            /\ last' = Call("component_decomposition", <<scalar>>, <<N>>,
                            None, << >>, r.bits)
            /\ calls' = calls + 1
            /\ panicked' = ~r.ok

AppendDummyGates ==
    /\ CanCall
    /\ Mutates("append_dummy_gates", << >>, << >>, None, << >>,
               append_dummy_gates(composer))

AppendPlonkupGate ==
    /\ CanCall
    /\ \E w \in InWires(handles), pi \in InPublic,
          debug_assertions \in BOOLEAN :
        Returns("append_plonkup_gate", w, << >>, pi, << >>,
                append_plonkup_gate(composer, w[1], w[2], w[3], w[4], pi,
                                    debug_assertions))

AppendPlonkupTable ==
    /\ CanCall
    /\ \E table \in InTables :
        Mutates("append_plonkup_table", << >>, << >>, None, table,
                append_plonkup_table(composer, table))

\* The read accessors take &self: they hand their value to the caller and
\* leave every field as it is, unless they panic.
Reads(op, panics) ==
    /\ ~panicked
    /\ panicked' = panics
    /\ last' = IF panics THEN Call(op, << >>, << >>, None, << >>, << >>)
               ELSE last
    /\ UNCHANGED <<composer, handles, calls>>

ToDensePublicInputs ==
    Reads("to_dense_public_inputs", DensePanics(composer))

PublicInputIndexes == Reads("public_input_indexes", FALSE)

\* check_circuit_satisfied takes &self: it returns, or panics with "Check
\* failed at gate i"; last.k then holds the i it cites.
CheckCircuitSatisfied ==
    /\ ~panicked
    /\ \E r \in {check_circuit_satisfied(composer)} :
           /\ panicked' = IsSome(r)
           /\ last' = IF IsSome(r)
                      THEN Call("check_circuit_satisfied", << >>,
                                <<Unwrap(r)>>, None, << >>, << >>)
                      ELSE last
    /\ UNCHANGED <<composer, handles, calls>>

Next ==
    \/ AppendWitness
    \/ AppendConstant
    \/ AppendGate
    \/ AssertEqualConstant
    \/ AssertEqual
    \/ ComponentSelect
    \/ ComponentSelectZero
    \/ ComponentSelectOne
    \/ ComponentDecomposition
    \/ AppendDummyGates
    \/ AppendPlonkupGate
    \/ AppendPlonkupTable
    \/ ToDensePublicInputs
    \/ PublicInputIndexes
    \/ CheckCircuitSatisfied

Spec == Init /\ [][Next]_vars

\* The circuits built from construction, append_witness, append_constant,
\* append_dummy_gates, append_plonkup_gate and the select gadgets on a bit.
NextSat ==
    \/ AppendWitness
    \/ AppendConstant
    \/ AppendDummyGates
    \/ AppendPlonkupGate
    \/ ComponentSelectBit
    \/ ComponentSelectZeroBit
    \/ ComponentSelectOneBit

SpecSat == Init /\ [][NextSat]_vars

(***************************************************************************)
(* What the properties below speak of.                                     *)
(***************************************************************************)
\* A step that is a call of the method op.
Called(op) == calls' = calls + 1 /\ last'.op = op

\* The last call was op and returned.
Returned(op) == last.op = op /\ ~panicked

SelectorSeqs(c) ==
    << c.q_m, c.q_l, c.q_r, c.q_o, c.q_4, c.q_c, c.q_arith, c.q_range,
       c.q_logic, c.q_fixed_group_add, c.q_variable_group_add, c.q_lookup >>

WireSeqs(c) == << c.w_l, c.w_r, c.w_o, c.w_4 >>

Columns == <<"Left", "Right", "Output", "Fourth">>

\* The occurrences the permutation holds: <<witness, position in its list>>.
Occurrences(c) ==
    UNION { { <<v, i>> : i \in DOMAIN c.perm.variable_map[v] } :
            v \in DOMAIN c.perm.variable_map }

SiteOf(c, occ) == c.perm.variable_map[occ[1]][occ[2]]

\* The sites registered, each with the witness it is registered against.
Sites(c) == { <<occ[1], SiteOf(c, occ)>> : occ \in Occurrences(c) }

Value(c, w) == c.witnesses[w]

\* The public input a call supplied, zero when it supplied none.
Supplied(pi) == IF IsSome(pi) THEN From(Unwrap(pi)) ELSE 0

(***************************************************************************)
(* Properties.                                                             *)
(***************************************************************************)
\* C1: a freshly constructed composer, from new() or from with_size(s),
\* reports gates() = 3: row 0 puts Witness 0 on the A wire with Left = 1 and
\* Constant = 0 (forcing it to zero), and rows 1 and 2 are the dummy rows.
C1_FreshComposerHasThreeGates ==
    /\ gates(new) = 3
    /\ last.op = "with_size" =>
          /\ gates(composer) = 3
          /\ composer.w_l[1] = constant_zero
          /\ composer.q_l[1] = 1
          /\ composer.q_c[1] = 0
          /\ composer.witnesses[constant_zero] = 0
          /\ composer.q_lookup = <<0, 1, 1>>
          /\ composer.q_m = <<0, 1, 1>>

C1_Witness ==
    last.op = "with_size" /\ last.k = <<MaxSize>> /\ gates(composer) = 3

\* C2: each of the twelve selector sequences and each of the four wire
\* sequences has length n in every state, and no step decreases n.
C2_LengthsAreN ==
    /\ \A i \in 1 .. 12 : Len(SelectorSeqs(composer)[i]) = gates(composer)
    /\ \A i \in 1 .. 4 : Len(WireSeqs(composer)[i]) = gates(composer)

\* C2: in every reachable state all sixteen sequences have length n, and
\* no step takes n to a smaller value.
C2_SequencesHaveLengthN ==
    [] C2_LengthsAreN /\ [][gates(composer') >= gates(composer)]_vars

C2_Witness ==
    /\ calls = MaxCalls
    /\ gates(composer) > 4
    /\ last.op \in {"append_plonkup_gate", "append_gate",
                    "component_decomposition"}
    /\ Len(composer.q_4) = gates(composer)

\* C3: the sites registered with the permutation are the 4n positions
\* (column, row < n), each registered once, and each against the witness
\* that the column's wire sequence holds at that row.
C3_SitesAreTheWirePositions ==
    LET occs == Occurrences(composer)
        positions == { <<Columns[col], row>> :
                         col \in 1 .. 4, row \in 0 .. gates(composer) - 1 }
    IN  /\ Cardinality(occs) = 4 * gates(composer)
        /\ { SiteOf(composer, occ) : occ \in occs } = positions
        /\ \A occ \in occs :
              LET site == SiteOf(composer, occ)
              IN  \E col \in 1 .. 4 :
                    /\ site[1] = Columns[col]
                    /\ WireSeqs(composer)[col][site[2] + 1] = occ[1]

C3_Witness ==
    /\ calls = MaxCalls
    /\ last.op = "append_dummy_gates"
    /\ gates(composer) >= 6
    /\ \E v \in DOMAIN composer.perm.variable_map :
          Len(composer.perm.variable_map[v]) >= 3

\* C4: in a circuit built from construction, append_witness,
\* append_constant, append_dummy_gates, append_plonkup_gate and the select
\* gadgets called on a bit, the row identity is zero at every row.
C4_EveryRowSatisfied ==
    \A i \in 0 .. gates(composer) - 1 : RowIdentity(composer, i) = 0

C4_Witness ==
    /\ Returned("component_select")
    /\ Value(composer, last.w[1]) = 1
    /\ gates(composer) = 7
    /\ \E i \in 0 .. gates(composer) - 1 : composer.q_lookup[i + 1] = 0

\* C5 (as claimed): the row that assert_equal_constant(a, k, pi) appends has
\* a zero row identity exactly when value(a) = k + pi (pi = 0 for None).
C5_RowZeroIffAIsConstantPlusPi ==
    Returned("assert_equal_constant") =>
        LET row == gates(composer) - 1
        IN  (RowIdentity(composer, row) = 0)
                <=> (Value(composer, last.w[1])
                        = Add(From(last.k[1]), Supplied(last.pi)))

\* C6 (as claimed): append_gate, assert_equal_constant and
\* append_plonkup_gate record an entry at the new row exactly when the
\* public input supplied for it is not zero, so no stored value is zero.
C6_EntryIffNonzeroPublicInput ==
    /\ \A row \in DOMAIN composer.public_inputs_sparse_store :
          composer.public_inputs_sparse_store[row] # 0
    /\ (\/ Returned("append_gate")
        \/ Returned("assert_equal_constant")
        \/ Returned("append_plonkup_gate"))
          => ((gates(composer) - 1
                  \in DOMAIN composer.public_inputs_sparse_store)
                 <=> Supplied(last.pi) # 0)

\* C7: every key of the public-input store is a row below n, and the debug
\* assertion of append_plonkup_gate never fails.
C7_PublicInputRowsBelowN ==
    /\ DOMAIN composer.public_inputs_sparse_store
          \subseteq 0 .. gates(composer) - 1
    /\ ~(panicked /\ last.op = "append_plonkup_gate")

C7_Witness ==
    /\ Returned("append_plonkup_gate")
    /\ IsSome(last.pi)
    /\ DOMAIN composer.public_inputs_sparse_store
          = {gates(composer) - 2, gates(composer) - 1}

\* C8: to_dense_public_inputs() has length n, holds the recorded value at
\* every recorded row and zero elsewhere; public_input_indexes() is the
\* recorded rows in strictly ascending order; neither changes the composer.
C8_DenseAndIndexes ==
    LET store == composer.public_inputs_sparse_store
        dense == to_dense_public_inputs(composer)
        indexes == public_input_indexes(composer)
    IN  /\ ~DensePanics(composer)
        /\ Len(dense) = gates(composer)
        /\ \A row \in 0 .. gates(composer) - 1 :
              dense[row + 1] = IF row \in DOMAIN store THEN store[row] ELSE 0
        /\ { indexes[i] : i \in 1 .. Len(indexes) } = DOMAIN store
        /\ \A i \in 1 .. Len(indexes) - 1 : indexes[i] < indexes[i + 1]

\* C8: in every reachable state the dense vector has length n with the
\* stored values at their rows and zero elsewhere, the indexes are the keys
\* in ascending order, and neither call changes the composer.
C8_DensePublicInputs ==
    /\ [] C8_DenseAndIndexes
    /\ [][(ToDensePublicInputs \/ PublicInputIndexes)
             => composer' = composer]_vars

C8_Witness ==
    /\ Cardinality(DOMAIN composer.public_inputs_sparse_store) = 2
    /\ gates(composer) = 5
    /\ to_dense_public_inputs(composer)[4] # 0
    /\ to_dense_public_inputs(composer)[5] # 0
    /\ public_input_indexes(composer) = <<3, 4>>

\* C9: append_witness(value) returns a handle that no witness had before,
\* binds it to value, and changes nothing else: n, the sixteen sequences,
\* the registered sites, the public-input store and the lookup table.
C9_AppendWitnessAddsNoConstraint ==
    [][Called("append_witness") =>
          LET w == last'.ret[1]
          IN  /\ w \notin DOMAIN composer.witnesses
              /\ w \notin handles
              /\ composer'.witnesses
                    = MapInsert(composer.witnesses, w, From(last'.k[1]))
              /\ gates(composer') = gates(composer)
              /\ SelectorSeqs(composer') = SelectorSeqs(composer)
              /\ WireSeqs(composer') = WireSeqs(composer)
              /\ Sites(composer') = Sites(composer)
              /\ composer'.public_inputs_sparse_store
                    = composer.public_inputs_sparse_store
              /\ composer'.lookup_table = composer.lookup_table]_vars

C9_Witness ==
    /\ Returned("append_witness")
    /\ calls = MaxCalls
    /\ last.k = <<2>>
    /\ Value(composer, last.ret[1]) = 2
    /\ Cardinality(handles) = 3

\* C10: append_constant(value) allocates one witness bound to value and
\* appends one row (Left = 1, Constant = -value, wire A = the witness, no
\* public input) whose row identity is zero exactly when the witness has
\* the value value; so the row it emits is satisfied.
C10_AppendConstantConstrains ==
    [][Called("append_constant") =>
          LET w == last'.ret[1]
              v == From(last'.k[1])
              row == gates(composer)
          IN  /\ gates(composer') = row + 1
              /\ w \notin DOMAIN composer.witnesses
              /\ composer'.witnesses = MapInsert(composer.witnesses, w, v)
              /\ composer'.w_l[row + 1] = w
              /\ composer'.w_r[row + 1] = constant_zero
              /\ composer'.w_o[row + 1] = constant_zero
              /\ composer'.w_4[row + 1] = constant_zero
              /\ composer'.q_l[row + 1] = 1
              /\ composer'.q_c[row + 1] = Neg(v)
              /\ composer'.q_arith[row + 1] = 1
              /\ \A q \in {composer'.q_m, composer'.q_r, composer'.q_o,
                           composer'.q_4, composer'.q_range,
                           composer'.q_logic, composer'.q_lookup} :
                    q[row + 1] = 0
              /\ row \notin DOMAIN composer'.public_inputs_sparse_store
              /\ RowIdentity(composer', row) = 0
              /\ \A x \in Field :
                    (RowIdentity([composer' EXCEPT !.witnesses[w] = x], row)
                        = 0) <=> x = v]_vars

C10_Witness ==
    /\ Returned("append_constant")
    /\ calls = MaxCalls
    /\ last.k = <<2>>
    /\ composer.q_c[gates(composer)] = Neg(2)
    /\ Value(composer, last.ret[1]) = 2

\* C11: assert_equal(a, b) appends one row with a on wire A, b on wire B,
\* Witness 0 on wires O and D, Left = 1 and Right = -1, and allocates no
\* witness; the row identity there is zero exactly when a and b have the
\* same value.
C11_AssertEqualRow ==
    [][Called("assert_equal") =>
          LET wa == last'.w[1]
              wb == last'.w[2]
              row == gates(composer)
          IN  /\ gates(composer') = row + 1
              /\ composer'.witnesses = composer.witnesses
              /\ handles' = handles
              /\ composer'.w_l[row + 1] = wa
              /\ composer'.w_r[row + 1] = wb
              /\ composer'.w_o[row + 1] = constant_zero
              /\ composer'.w_4[row + 1] = constant_zero
              /\ composer'.q_l[row + 1] = 1
              /\ composer'.q_r[row + 1] = Neg(1)
              /\ \A q \in {composer'.q_m, composer'.q_o, composer'.q_4,
                           composer'.q_c, composer'.q_lookup} :
                    q[row + 1] = 0
              /\ (RowIdentity(composer', row) = 0)
                    <=> (Value(composer', wa) = Value(composer', wb))
              /\ wa # wb =>
                    \A x \in Field :
                       (RowIdentity([composer' EXCEPT !.witnesses[wa] = x],
                                    row) = 0)
                          <=> x = Value(composer', wb)]_vars

C11_Witness ==
    /\ Returned("assert_equal")
    /\ Value(composer, last.w[1]) = 2
    /\ Value(composer, last.w[2]) = 0
    /\ RowIdentity(composer, gates(composer) - 1) = 2

\* The select of a witness valued x and a witness valued y on a bit witness
\* valued bitv, on a fresh composer: the composer after it, the witness it
\* returns and the row it started at.
SelectOf(x, y, bitv) ==
    LET wx == append_witness(new, x)
        wy == append_witness(wx.c, y)
        wbit == append_witness(wy.c, bitv)
        r == component_select(wbit.c, wbit.var, wx.var, wy.var, TRUE)
    IN  [c |-> r.c, var |-> r.var, ok |-> r.ok, row |-> gates(wbit.c)]

\* The values of b that the select is tried on against every value of a.
SelectOthers == {0, 1, Modulus - 1}

SelectsForAllValues ==
    \A x \in Field, y \in SelectOthers, bitv \in {0, 1} :
        LET r == SelectOf(x, y, bitv)
        IN  /\ r.ok
            /\ Value(r.c, r.var) = IF bitv = 1 THEN x ELSE y
            /\ \A i \in r.row .. gates(r.c) - 1 : RowIdentity(r.c, i) = 0

\* C12: component_select(bit, a, b) returns a witness that has the value of
\* a when the bit is 1 and the value of b when the bit is 0, whatever field
\* values a and b have, and each of the rows it appends has row identity
\* zero.
C12_SelectReturnsAOrB ==
    /\ [] SelectsForAllValues
    /\ [][Called("component_select") /\ ~panicked' =>
            LET bit == last'.w[1]
                wa == last'.w[2]
                wb == last'.w[3]
                r == last'.ret[1]
            IN  /\ gates(composer') > gates(composer)
                /\ \A i \in gates(composer) .. gates(composer') - 1 :
                      RowIdentity(composer', i) = 0
                /\ Value(composer, bit) = 1 =>
                      Value(composer', r) = Value(composer, wa)
                /\ Value(composer, bit) = 0 =>
                      Value(composer', r) = Value(composer, wb)]_vars

C12_Witness ==
    /\ Returned("component_select")
    /\ Value(composer, last.w[1]) = 0
    /\ Value(composer, last.w[2]) = 0
    /\ Value(composer, last.w[3]) = 2
    /\ Value(composer, last.ret[1]) = 2
    /\ last.ret[1] \notin {last.w[1], last.w[2], last.w[3]}
    /\ gates(composer) = 7

\* C13: component_select_one(bit, v) allocates one fresh witness valued
\* 1 - bit + bit * v (v when the bit is 1, 1 when it is 0), appends one row
\* binding it (Multiplication = 1, Left = -1, Output = -1, Constant = 1,
\* wires A = bit, B = v, O = the fresh witness) whose row identity is zero,
\* and returns the fresh witness.
C13_SelectOneBindsFreshWitness ==
    [][Called("component_select_one") /\ ~panicked' =>
          LET bit == last'.w[1]
              v == last'.w[2]
              r == last'.ret[1]
              vb == Value(composer, bit)
              vv == Value(composer, v)
              row == gates(composer)
          IN  /\ r \notin DOMAIN composer.witnesses
              /\ r \notin handles
              /\ composer'.witnesses
                    = MapInsert(composer.witnesses, r,
                                Add(Sub(1, vb), Mul(vb, vv)))
              /\ vb = 1 => Value(composer', r) = vv
              /\ vb = 0 => Value(composer', r) = 1
              /\ gates(composer') = row + 1
              /\ composer'.w_l[row + 1] = bit
              /\ composer'.w_r[row + 1] = v
              /\ composer'.w_o[row + 1] = r
              /\ composer'.w_4[row + 1] = constant_zero
              /\ composer'.q_m[row + 1] = 1
              /\ composer'.q_l[row + 1] = Neg(1)
              /\ composer'.q_o[row + 1] = Neg(1)
              /\ composer'.q_c[row + 1] = 1
              /\ \A q \in {composer'.q_r, composer'.q_4, composer'.q_lookup} :
                    q[row + 1] = 0
              /\ RowIdentity(composer', row) = 0]_vars

C13_Witness ==
    /\ Returned("component_select_one")
    /\ Value(composer, last.w[1]) = 0
    /\ Value(composer, last.w[2]) = 2
    /\ Value(composer, last.ret[1]) = 1
    /\ composer.w_o[gates(composer)] = last.ret[1]

\* C14: component_select_zero(bit, v) returns a witness valued bit * v (the
\* value of v when the bit is 1, 0 when it is 0) and appends a single
\* multiplication row, whose row identity is zero.
C14_SelectZeroIsTheProduct ==
    [][Called("component_select_zero") /\ ~panicked' =>
          LET bit == last'.w[1]
              v == last'.w[2]
              r == last'.ret[1]
              vb == Value(composer, bit)
              vv == Value(composer, v)
              row == gates(composer)
          IN  /\ Value(composer', r) = Mul(vb, vv)
              /\ vb = 1 => Value(composer', r) = vv
              /\ vb = 0 => Value(composer', r) = 0
              /\ gates(composer') = row + 1
              /\ composer'.w_l[row + 1] = bit
              /\ composer'.w_r[row + 1] = v
              /\ composer'.w_o[row + 1] = r
              /\ composer'.q_m[row + 1] = 1
              /\ composer'.q_o[row + 1] = Neg(1)
              /\ \A q \in {composer'.q_l, composer'.q_r, composer'.q_4,
                           composer'.q_c, composer'.q_lookup} :
                    q[row + 1] = 0
              /\ RowIdentity(composer', row) = 0]_vars

C14_Witness ==
    /\ Returned("component_select_zero")
    /\ Value(composer, last.w[1]) = 1
    /\ Value(composer, last.w[2]) = 1
    /\ Value(composer, last.ret[1]) = 1
    /\ last.ret[1] # last.w[2]
    /\ composer.q_m[gates(composer)] = 1

\* The integer that a sequence of bit values stands for, least significant
\* bit first.
RECURSIVE WeightedSum(_)
WeightedSum(vals) ==
    IF vals = << >> THEN 0 ELSE Head(vals) + 2 * WeightedSum(Tail(vals))

\* The values of a sequence of witnesses.
Values(c, ws) == [i \in DOMAIN ws |-> Value(c, ws[i])]

\* The decomposition of a witness valued x into N bits on a fresh composer:
\* the number of rows it adds and the values of the witnesses it returns.
DecompositionOf(x, N) ==
    LET w == append_witness(new, x)
        r == component_decomposition(w.c, w.var, N)
    IN  [rows |-> gates(r.c) - gates(w.c), values |-> Values(r.c, r.bits)]

DecomposesFiveInFourBits ==
    DecompositionOf(5, 4) = [rows |-> 9, values |-> <<1, 0, 1, 0>>]

\* C15: component_decomposition::<N>(scalar) adds 2N + 1 rows and returns N
\* fresh witnesses, the i-th (from 0) valued bit i of the scalar's value,
\* least significant bit first; 5 in 4 bits gives 1, 0, 1, 0.
C15_DecompositionBits ==
    /\ [] DecomposesFiveInFourBits
    /\ [][Called("component_decomposition") /\ ~panicked' =>
            LET scalar == last'.w[1]
                N == last'.k[1]
                bits == last'.ret
                vals == Values(composer', bits)
            IN  /\ gates(composer') = gates(composer) + 2 * N + 1
                /\ Len(bits) = N
                /\ \A i \in 1 .. N :
                      /\ bits[i] \notin DOMAIN composer.witnesses
                      /\ vals[i] \in {0, 1}
                      /\ \A j \in 1 .. N : bits[i] = bits[j] => i = j
                /\ WeightedSum(vals) = Value(composer, scalar) % (2 ^ N)]_vars

C15_Witness ==
    /\ Returned("component_decomposition")
    /\ last.k = <<MaxBits>>
    /\ Value(composer, last.w[1]) = 2
    /\ Values(composer, last.ret)[1] = 0
    /\ Values(composer, last.ret)[2] = 1

\* The last row of a decomposition is the equality row between the
\* accumulator and the scalar, and the accumulator is valued the weighted
\* sum of the bits returned.
FinalRowEquatesSumAndScalar ==
    LET scalar == last'.w[1]
        n == gates(composer')
        acc == composer'.w_l[n]
    IN  /\ composer'.w_r[n] = scalar
        /\ composer'.w_o[n] = constant_zero
        /\ composer'.w_4[n] = constant_zero
        /\ composer'.q_l[n] = 1
        /\ composer'.q_r[n] = Neg(1)
        /\ \A q \in {composer'.q_m, composer'.q_o, composer'.q_4,
                     composer'.q_c, composer'.q_lookup} : q[n] = 0
        /\ acc \notin DOMAIN composer.witnesses
        /\ Value(composer', acc)
              = From(WeightedSum(Values(composer', last'.ret)))

\* C16 (as claimed): the last row of component_decomposition::<N>(scalar)
\* equates the accumulator, valued the weighted sum of the bits, with the
\* scalar, and its row identity is zero for every scalar.
C16_FinalRowAlwaysSatisfied ==
    [][Called("component_decomposition") /\ ~panicked' =>
          /\ FinalRowEquatesSumAndScalar
          /\ RowIdentity(composer', gates(composer') - 1) = 0]_vars

\* C16 (amended): the last row of component_decomposition::<N>(scalar)
\* equates the accumulator, valued the weighted sum of the bits, with the
\* scalar; its row identity is zero exactly when the scalar's value is below
\* 2^N, and every row before it has row identity zero.
C16_FinalRowSatisfiedIffScalarFits ==
    [][Called("component_decomposition") /\ ~panicked' =>
          /\ FinalRowEquatesSumAndScalar
          /\ \A i \in gates(composer) .. gates(composer') - 2 :
                RowIdentity(composer', i) = 0
          /\ (RowIdentity(composer', gates(composer') - 1) = 0)
                <=> (Value(composer, last'.w[1]) < 2 ^ last'.k[1])]_vars

C16_Witness ==
    /\ Returned("component_decomposition")
    /\ last.k = <<1>>
    /\ Value(composer, last.w[1]) = 2
    /\ Values(composer, last.ret) = <<0>>
    /\ Value(composer, composer.w_l[gates(composer)]) = 0
    /\ RowIdentity(composer, gates(composer) - 1) # 0

\* C17: append_plonkup_gate(a, b, c, d, pi) appends one row with wires
\* (a, b, c, d), Lookup = 1 and the other eleven selectors zero, allocates
\* no witness, leaves the lookup table as it is and returns the handle c.
C17_PlonkupGateRow ==
    [][Called("append_plonkup_gate") /\ ~panicked' =>
          LET row == gates(composer)
          IN  /\ gates(composer') = row + 1
              /\ [i \in 1 .. 4 |-> WireSeqs(composer')[i][row + 1]] = last'.w
              /\ \A i \in 1 .. 4 :
                    Len(WireSeqs(composer')[i]) = row + 1
              /\ composer'.q_lookup[row + 1] = 1
              /\ \A i \in 1 .. 11 : SelectorSeqs(composer')[i][row + 1] = 0
              /\ composer'.witnesses = composer.witnesses
              /\ composer'.lookup_table = composer.lookup_table
              /\ last'.ret = <<last'.w[3]>>
              /\ handles' = handles]_vars

C17_Witness ==
    /\ Returned("append_plonkup_gate")
    /\ last.w[3] # constant_zero
    /\ last.w[4] = constant_zero
    /\ last.ret = <<last.w[3]>>
    /\ composer.q_lookup[gates(composer)] = 1
    /\ composer.w_o[gates(composer)] = last.w[3]

\* The rows of a lookup table.
Rows(table) == { table[i] : i \in DOMAIN table }

\* The rows seeded at construction.
SeededRows ==
    { <<From(6), From(7), Neg(20), From(1)>>,
      <<Neg(20), From(6), From(7), From(0)>>,
      <<From(3), From(1), From(4), From(9)>> }

\* C18: append_plonkup_table(table) leaves the lookup table as its previous
\* rows followed by the rows of table, in order, and changes nothing else;
\* the three rows seeded at construction are in the lookup table in every
\* reachable state, and no step removes a row.
C18_LookupTableGrowsAtTheEnd ==
    /\ [] (SeededRows \subseteq Rows(composer.lookup_table))
    /\ [][Rows(composer.lookup_table)
             \subseteq Rows(composer'.lookup_table)]_vars
    /\ [][Called("append_plonkup_table") =>
            composer' = [composer EXCEPT
                            !.lookup_table = @ \o last'.arg]]_vars

C18_Witness ==
    /\ Returned("append_plonkup_table")
    /\ calls = MaxCalls
    /\ Len(last.arg) = 2
    /\ Len(composer.lookup_table) = 8
    /\ composer.lookup_table[7] = last.arg[1]
    /\ composer.lookup_table[8] = last.arg[2]

\* The values on the four wires of a row.
WireValues(c, row) == [i \in 1 .. 4 |-> Value(c, WireSeqs(c)[i][row + 1])]

\* The two rows that append_dummy_gates put at row and row + 1.
DummyRowsAt(c, row) ==
    /\ WireValues(c, row) = <<From(6), From(7), Neg(20), From(1)>>
    /\ WireValues(c, row + 1) = <<Neg(20), From(6), From(7), 0>>
    /\ c.w_4[row + 2] = constant_zero
    /\ \A i \in {row, row + 1} :
          /\ RowIdentity(c, i) = 0
          /\ c.q_lookup[i + 1] = 1
          /\ c.q_arith[i + 1] = 1
          /\ WireValues(c, i) \in Rows(c.lookup_table)

\* C19: every call of append_dummy_gates appends two rows whose row identity
\* is zero under the new witnesses valued 6, 7, -20 and 1 and Witness 0,
\* both with Lookup = 1 and with their wire values a row of the lookup
\* table after the call; a fresh composer's lookup table has 3 rows.
C19_DummyGatesSatisfied ==
    /\ [] (calls = 0 =>
              /\ Len(composer.lookup_table) = 3
              /\ DummyRowsAt(composer, 1))
    /\ [][Called("append_dummy_gates") =>
            /\ gates(composer') = gates(composer) + 2
            /\ DummyRowsAt(composer', gates(composer))
            /\ \A i \in 1 .. 4 :
                  WireSeqs(composer')[i][gates(composer) + 1]
                      \notin DOMAIN composer.witnesses
            /\ Cardinality(DOMAIN composer'.witnesses)
                  = Cardinality(DOMAIN composer.witnesses) + 4]_vars

C19_Witness ==
    /\ Returned("append_dummy_gates")
    /\ calls = MaxCalls
    /\ gates(composer) = 6
    /\ Len(composer.lookup_table) = 6
    /\ DummyRowsAt(composer, 4)
    /\ composer.q_lookup[4] = 1
    /\ composer.w_l[5] \notin handles

\* C20: Witness 0 is bound to zero in every reachable state, and no step
\* removes a witness or changes the value it is bound to; so a handle that
\* append_witness(v) returned stays bound to v.
C20_WitnessTableAppendOnly ==
    /\ [] (/\ constant_zero \in DOMAIN composer.witnesses
           /\ Value(composer, constant_zero) = 0)
    /\ [][\A w \in DOMAIN composer.witnesses :
             /\ w \in DOMAIN composer'.witnesses
             /\ Value(composer', w) = Value(composer, w)]_vars
    /\ [][Called("append_witness") =>
             Value(composer', last'.ret[1]) = From(last'.k[1])]_vars

C20_Witness ==
    /\ Returned("append_constant")
    /\ calls = MaxCalls
    /\ Value(composer, constant_zero) = 0
    /\ \E h \in handles :
          /\ h \notin {constant_zero, last.ret[1]}
          /\ Value(composer, h) = 2
    /\ Value(composer, last.ret[1]) = 1

\* The names of the twelve selector sequences, in the order of SelectorSeqs.
SelectorNames ==
    << "Multiplication", "Left", "Right", "Output", "Fourth", "Constant",
       "Arithmetic", "Range", "Logic", "GroupAddFixedBase",
       "GroupAddVariableBase", "Lookup" >>

\* Every row is whole: the sixteen sequences have n entries each and the
\* permutation holds four occurrences per row.
RowsAreWhole ==
    /\ \A i \in 1 .. 12 : Len(SelectorSeqs(composer)[i]) = gates(composer)
    /\ \A i \in 1 .. 4 : Len(WireSeqs(composer)[i]) = gates(composer)
    /\ Cardinality(Occurrences(composer)) = 4 * gates(composer)

\* C21: append_gate(constraint) adds exactly one row: n grows by 1, the row
\* at the old n has the constraint's A, B, O, D witnesses on the wires and
\* its coefficients in the selector sequences, the four occurrences are
\* registered at that row; and in no state between operations is a row
\* there in part only.
C21_AppendGateIsAtomic ==
    /\ [] RowsAreWhole
    /\ [][Called("append_gate") =>
            LET s == last'.arg
                row == gates(composer)
            IN  /\ gates(composer') = row + 1
                /\ \A i \in 1 .. 4 :
                      WireSeqs(composer')[i]
                         = Append(WireSeqs(composer)[i], last'.w[i])
                /\ last'.w = << witness(s, "A"), witness(s, "B"),
                                witness(s, "O"), witness(s, "D") >>
                /\ \A i \in 1 .. 12 :
                      SelectorSeqs(composer')[i]
                         = Append(SelectorSeqs(composer)[i],
                                  IF SelectorNames[i] = "Arithmetic" THEN 1
                                  ELSE coeff(s, SelectorNames[i]))
                /\ Sites(composer')
                      = Sites(composer)
                           \cup { <<last'.w[i], <<Columns[i], row>> >> :
                                     i \in 1 .. 4 }
                /\ Cardinality(Occurrences(composer'))
                      = Cardinality(Occurrences(composer)) + 4
                /\ ~panicked']_vars

C21_Witness ==
    /\ Returned("append_gate")
    /\ calls = MaxCalls
    /\ last.w[3] # constant_zero
    /\ last.w[4] = constant_zero
    /\ composer.q_4[gates(composer)] = coeff(last.arg, "Fourth")
    /\ composer.q_4[gates(composer)] # 0
    /\ <<last.w[3], <<"Output", gates(composer) - 1>> >> \in Sites(composer)

\* The first n entries of a sequence.
Prefix(seq, n) == SubSeq(seq, 1, n)

\* A map restricted to the keys below n.
Below(m, n) == [k \in {x \in DOMAIN m : x < n} |-> m[k]]

\* C22: no step changes a past row: the entries below the old n of the
\* twelve selector sequences and the four wire sequences, the public-input
\* entries and the permutation occurrences of rows below the old n are
\* after the step what they were before it.
C22_PastRowsAreKept ==
    [][LET n == gates(composer)
       IN  /\ gates(composer') >= n
           /\ \A i \in 1 .. 12 :
                 Prefix(SelectorSeqs(composer')[i], n)
                    = SelectorSeqs(composer)[i]
           /\ \A i \in 1 .. 4 :
                 Prefix(WireSeqs(composer')[i], n) = WireSeqs(composer)[i]
           /\ Below(composer'.public_inputs_sparse_store, n)
                 = composer.public_inputs_sparse_store
           /\ { site \in Sites(composer') : site[2][2] < n }
                 = Sites(composer)
           /\ \A v \in DOMAIN composer.perm.variable_map :
                 Prefix(composer'.perm.variable_map[v],
                        Len(composer.perm.variable_map[v]))
                    = composer.perm.variable_map[v]]_vars

C22_Witness ==
    /\ Returned("append_gate")
    /\ calls = MaxCalls
    /\ gates(composer) = 5
    /\ DOMAIN composer.public_inputs_sparse_store = {3, 4}
    /\ composer.public_inputs_sparse_store[3] = 0
    /\ composer.public_inputs_sparse_store[4] = 1
    /\ composer.q_lookup[4] = 1

\* C23: assert_equal(a, b) on witnesses of different values, and
\* append_plonkup_gate on wire values that are no row of the lookup table,
\* return normally and add one row as they always do; what is wrong shows
\* only in the state after: a row identity that is not zero, which the
\* checker reports, or wire values that are no row of the table.
C23_UnsatisfiableRowsAreAccepted ==
    /\ [][Called("assert_equal") =>
            LET row == gates(composer)
            IN  /\ ~panicked'
                /\ gates(composer') = row + 1
                /\ composer'.witnesses = composer.witnesses
                /\ Value(composer, last'.w[1]) # Value(composer, last'.w[2])
                      => /\ RowIdentity(composer', row) # 0
                         /\ IsSome(check_circuit_satisfied(composer'))]_vars
    /\ [][Called("append_plonkup_gate") =>
            LET row == gates(composer)
            IN  /\ ~panicked'
                /\ gates(composer') = row + 1
                /\ composer'.witnesses = composer.witnesses
                /\ composer'.lookup_table = composer.lookup_table
                /\ WireValues(composer', row) = Values(composer, last'.w)
                /\ RowIdentity(composer', row) = 0]_vars

C23_Witness ==
    /\ Returned("append_plonkup_gate")
    /\ calls = MaxCalls
    /\ WireValues(composer, gates(composer) - 1) = <<0, 0, 2, 0>>
    /\ WireValues(composer, gates(composer) - 1)
          \notin Rows(composer.lookup_table)
    /\ check_circuit_satisfied(composer) = None

\* The rows whose row identity is not zero.
FailingRows(c) == { i \in 0 .. gates(c) - 1 : RowIdentity(c, i) # 0 }

\* C24: check_circuit_satisfied goes through rows 0, 1, ..., n - 1 in order
\* and fails at the smallest row whose row identity is not zero, citing it;
\* it returns normally exactly when the row identity is zero at every row;
\* either way the composer is as it was.
C24_CheckerCitesFirstFailingRow ==
    /\ [] (~panicked =>
              LET failing == FailingRows(composer)
                  r == check_circuit_satisfied(composer)
              IN  /\ r = None <=> failing = {}
                  /\ IsSome(r) =>
                        /\ Unwrap(r) \in failing
                        /\ \A i \in failing : Unwrap(r) <= i)
    /\ [][~panicked /\ panicked' /\ last'.op = "check_circuit_satisfied" =>
            /\ composer' = composer
            /\ handles' = handles
            /\ Some(last'.k[1]) = check_circuit_satisfied(composer)]_vars

C24_Witness ==
    /\ panicked
    /\ last.op = "check_circuit_satisfied"
    /\ last.k = <<3>>
    /\ FailingRows(composer) = {3, 4}

\* A call that failed without effect: the composer is c and nothing came
\* back.
FailsUntouched(r, c) == ~r.ok /\ r.c = c

\* In a build with debug assertions the three select gadgets fail on a bit
\* that is neither 0 nor 1, leaving the composer as it was.
SelectsRefuseNonBits ==
    \A bit \in handles \ BitHandles, w \in InPairs(handles) :
        /\ FailsUntouched(component_select(composer, bit, w[1], w[2], TRUE),
                          composer)
        /\ FailsUntouched(component_select_zero(composer, bit, w[1], TRUE),
                          composer)
        /\ FailsUntouched(component_select_one(composer, bit, w[1], TRUE),
                          composer)

\* C25: a caller's error aborts the call before it changes anything: with
\* debug assertions the select gadgets fail on a bit that is neither 0 nor
\* 1, and component_decomposition fails for N = 0 and for N > 256, each with
\* the composer (n, rows, witnesses, permutation, public inputs) unchanged.
C25_CallerErrorsChangeNothing ==
    /\ [] (~panicked => SelectsRefuseNonBits)
    /\ [][(/\ last'.op \in {"component_select", "component_select_zero",
                           "component_select_one"}
            /\ calls' = calls + 1
            /\ panicked') =>
               /\ composer' = composer
               /\ handles' = handles
               /\ ~IsBit(composer, last'.w[1])]_vars
    /\ [][Called("component_decomposition") =>
            /\ panicked'
                  <=> (last'.k[1] = 0 \/ last'.k[1] > MaxDecompositionBits)
            /\ panicked' =>
                  /\ composer' = composer
                  /\ handles' = handles
                  /\ last'.ret = << >>]_vars

C25_Witness ==
    /\ panicked
    /\ last.op = "component_select_zero"
    /\ Value(composer, last.w[1]) = 2
    /\ gates(composer) = 3
    /\ DOMAIN composer.witnesses = 0 .. 5

\* The row of c at index row is an arithmetic row with the given
\* Multiplication, Left, Right and Constant coefficients, Output = -1 and no
\* fourth wire, on the witnesses wa and wb, and its output witness is wo.
GadgetRow(c, row, qm, ql, qr, qc, wa, wb, wo) ==
    /\ c.q_m[row + 1] = qm
    /\ c.q_l[row + 1] = ql
    /\ c.q_r[row + 1] = qr
    /\ c.q_c[row + 1] = qc
    /\ c.q_o[row + 1] = Neg(1)
    /\ c.q_4[row + 1] = 0
    /\ c.q_arith[row + 1] = 1
    /\ c.w_l[row + 1] = wa
    /\ c.w_r[row + 1] = wb
    /\ c.w_o[row + 1] = wo
    /\ c.w_4[row + 1] = constant_zero

\* C26: component_select(bit, a, b) adds exactly four rows, bit * a, 1 - bit,
\* (1 - bit) * b and the sum of the two products, and allocates exactly four
\* new witnesses, one output per row; the handle it returns is the output of
\* the sum row, a witness that did not exist before the call and so is
\* neither a nor b.
C26_SelectAddsFourRows ==
    [][Called("component_select") /\ ~panicked' =>
          LET bit == last'.w[1]
              wa == last'.w[2]
              wb == last'.w[3]
              r == last'.ret[1]
              row == gates(composer)
              old == DOMAIN composer.witnesses
              out == [i \in 1 .. 4 |-> composer'.w_o[row + i]]
          IN  /\ gates(composer') = row + 4
              /\ old \subseteq DOMAIN composer'.witnesses
              /\ DOMAIN composer'.witnesses \ old = {out[i] : i \in 1 .. 4}
              /\ Cardinality(DOMAIN composer'.witnesses \ old) = 4
              /\ GadgetRow(composer', row, 1, 0, 0, 0, bit, wa, out[1])
              /\ GadgetRow(composer', row + 1, 0, Neg(1), 0, 1, bit,
                           constant_zero, out[2])
              /\ GadgetRow(composer', row + 2, 1, 0, 0, 0, out[2], wb, out[3])
              /\ GadgetRow(composer', row + 3, 0, 1, 1, 0, out[3], out[1],
                           out[4])
              /\ r = out[4]
              /\ r \notin old
              /\ r \notin {wa, wb}
              /\ handles' = handles \cup {r}]_vars

C26_Witness ==
    /\ Returned("component_select")
    /\ gates(composer) = 7
    /\ Cardinality(DOMAIN composer.witnesses) = 10
    /\ last.ret[1] = composer.w_o[7]
    /\ last.ret[1] \notin {last.w[2], last.w[3]}
    /\ Value(composer, last.w[1]) = 1
    /\ Value(composer, last.w[2]) = 1
    /\ Value(composer, last.w[3]) = 0
    /\ Value(composer, last.ret[1]) = 1

\* What a gadget hands back, as a call record holds it.
Outcome(r) ==
    [c |-> r.c, ret |-> IF r.ok THEN <<r.var>> ELSE << >>, ok |-> r.ok]

Done(c) == [c |-> c, ret |-> << >>, ok |-> TRUE]

\* A second composer in state c is given the call that the record describes,
\* in a build with or without debug assertions: where it ends, what it
\* returns, and whether it returns.
Replay(c, call, debug_assertions) ==
    CASE call.op = "append_witness" ->
            LET r == append_witness(c, call.k[1])
            IN  [c |-> r.c, ret |-> <<r.var>>, ok |-> TRUE]
      [] call.op = "append_constant" ->
            LET r == append_constant(c, call.k[1])
            IN  [c |-> r.c, ret |-> <<r.var>>, ok |-> TRUE]
      [] call.op = "append_gate" -> Done(append_gate(c, call.arg))
      [] call.op = "assert_equal_constant" ->
            Done(assert_equal_constant(c, call.w[1], call.k[1], call.pi))
      [] call.op = "assert_equal" ->
            Done(assert_equal(c, call.w[1], call.w[2]))
      [] call.op = "component_select" ->
            Outcome(component_select(c, call.w[1], call.w[2], call.w[3],
                                     debug_assertions))
      [] call.op = "component_select_zero" ->
            Outcome(component_select_zero(c, call.w[1], call.w[2],
                                          debug_assertions))
      [] call.op = "component_select_one" ->
            Outcome(component_select_one(c, call.w[1], call.w[2],
                                         debug_assertions))
      [] call.op = "component_decomposition" ->
            LET r == component_decomposition(c, call.w[1], call.k[1])
            IN  [c |-> r.c, ret |-> r.bits, ok |-> r.ok]
      [] call.op = "append_dummy_gates" -> Done(append_dummy_gates(c))
      [] call.op = "append_plonkup_gate" ->
            Outcome(append_plonkup_gate(c, call.w[1], call.w[2], call.w[3],
                                        call.w[4], call.pi, debug_assertions))
      [] call.op = "append_plonkup_table" ->
            Done(append_plonkup_table(c, call.arg))

\* The step ends where the second composer ended, with the same handles
\* returned, and panics when it panicked.
Agrees(r) ==
    /\ composer' = r.c
    /\ last'.ret = r.ret
    /\ panicked' = ~r.ok

\* with_size reserves capacity and nothing else: every capacity gives the
\* state that new() gives.
ConstructionIgnoresCapacity ==
    \A s \in 0 .. MaxSize : with_size(s) = new

WireEntries(c) ==
    UNION { { WireSeqs(c)[i][j] : j \in DOMAIN WireSeqs(c)[i] } :
            i \in 1 .. 4 }

\* C28: with callers passing only handles this composer returned, or
\* constant_zero, every entry of w_l, w_r, w_o and w_4 is, in every reachable
\* state, a handle the witness table has a value for, and so is every handle
\* the callers hold: resolving a wire value never misses.
C28_WiresHoldKnownWitnesses ==
    /\ WireEntries(composer) \subseteq DOMAIN composer.witnesses
    /\ handles \subseteq DOMAIN composer.witnesses
    /\ constant_zero \in handles

C28_Witness ==
    /\ Returned("append_gate")
    /\ calls = 2
    /\ gates(composer) = 4
    /\ composer.w_o[4] \in handles \ {constant_zero}
    /\ composer.w_o[4] \notin DOMAIN new.witnesses
    /\ WireEntries(composer) = DOMAIN composer.witnesses

=============================================================================
